---- MODULE Spec2Model ----
(***************************************************************************)
(* A model of aoc_runner: runner.py (run, add_import_paths,                *)
(* import_by_path, name_in_function, path_fmt) and logger.py (Logger).     *)
(*                                                                         *)
(* Python strings are sequences of one-character strings, so that          *)
(* str(), pathlib.Path(), path_fmt() and repr() are real conversions.      *)
(* run is one linear procedure; pc is the line it stands at.               *)
(***************************************************************************)
EXTENDS Integers, Sequences, FiniteSets, TLC

VARIABLES
    pc,          \* position inside run ("idle": no call is active)
    frame,       \* the locals of the active call of run
    defaults,    \* run.__defaults__: the dict object behind kwargs = {}
    sys_path,    \* sys.path
    sys_modules, \* sys.modules["<dynamic>"]: the file last loaded, or <<>>
    cwd,         \* the process working directory
    clipboard,   \* the system clipboard
    stdout,      \* the lines Logger.fmt printed since the active call began
    files,       \* the file objects opened so far: "open" or "closed"
    now,         \* time.perf_counter(), relative to the start of the call
    exc,         \* the exception that left the last call ("" if none)
    calls,       \* top-level calls made so far in this process
    SOLUTION_DEPENDENCIES, \* the list read from the environment at load time
    added,       \* the path strings add_import_paths has accepted so far
    obs          \* what the active call of run did (for the properties)

vars == <<pc, frame, defaults, sys_path, sys_modules, cwd, clipboard, stdout,
          files, now, exc, calls, SOLUTION_DEPENDENCIES, added, obs>>

\* ---------------------------------------------------------------- bounds
MaxCalls == 2      \* top-level calls (run, add_import_paths) per process
MaxTick == 1       \* longest duration of one timed step, in clock ticks

\* --------------------------------------------------------------- strings
Digits == <<"0", "1", "2", "3", "4", "5", "6", "7", "8", "9">>

RECURSIVE IntToStr(_)
\* str(n) / f"{n}" for a non-negative int
IntToStr(n) ==
    IF n < 10 THEN <<Digits[n + 1]>>
    ELSE IntToStr(n \div 10) \o <<Digits[(n % 10) + 1]>>

\* s.replace(a, b) for one-character a and b
Replace(s, a, b) == [i \in 1..Len(s) |-> IF s[i] = a THEN b ELSE s[i]]

RECURSIVE PathText(_)
\* str(pathlib.Path(s)): trailing separators are dropped (the root stays)
PathText(s) ==
    IF Len(s) > 1 /\ s[Len(s)] = "/" THEN PathText(SubSeq(s, 1, Len(s) - 1))
    ELSE s

\* Path / component
Join(p, c) == PathText(p) \o <<"/">> \o c

\* a str and a pathlib.Path argument; a list of them
Str(s) == [kind |-> "str", text |-> s, items |-> <<>>]
Path(s) == [kind |-> "Path", text |-> PathText(s), items |-> <<>>]
List(xs) == [kind |-> "list", text |-> <<>>, items |-> xs]

\* path_fmt (runner.py:53-54)
path_fmt(s) == Replace(PathText(s), "\\", "/")

\* ----------------------------------------------------------- environment
\* pathlib.Path(os.environ[...]).resolve()
SOLUTION_DIRECTORY_PATH == <<"/", "s">>

LOG_ARG_NAME == "logger"

LibDir == <<"/", "l">>
LibDirSlash == <<"/", "l", "/">>
GoneDir == <<"/", "m">>
StartDir == <<"/", "w">>

Years == {2022, 2023, 2024}
Problems == {1}
Parts == {1, 2}
InputNames == {<<"i">>, <<"x">>}

ProblemDirectory(year, problem_num) ==
    Join(Join(SOLUTION_DIRECTORY_PATH, IntToStr(year)), IntToStr(problem_num))

\* the directories and files on disk
ExistingPaths ==
    {LibDir, StartDir, SOLUTION_DIRECTORY_PATH}
    \cup {ProblemDirectory(y, 1) : y \in {2022, 2023}}
    \cup {Join(ProblemDirectory(y, 1), <<"i">>) : y \in {2022, 2023}}

\* pathlib.Path(s).exists()
Exists(s) == PathText(s) \in ExistingPaths

\* the solution classes on disk: for each part_<n> its parameters after cls,
\* how many of them have no default, and its local variables
NoFunction == [params |-> <<>>, required |-> 0, locals |-> <<>>, defined |-> FALSE]
Function(params, required, locals) ==
    [params |-> params, required |-> required, locals |-> locals, defined |-> TRUE]

SolutionClass(dir, part) ==
    IF dir = ProblemDirectory(2022, 1) /\ part = 1
    THEN Function(<<"file", "logger">>, 2, <<>>)
    ELSE IF dir = ProblemDirectory(2022, 1) /\ part = 2
    THEN Function(<<"file", "n", "v">>, 1, <<"total">>)
    ELSE IF dir = ProblemDirectory(2023, 1) /\ part = 1
    THEN Function(<<"file">>, 1, <<"logger">>)
    ELSE NoFunction

\* function.__code__.co_varnames: cls, the parameters, then the locals
co_varnames(f) == <<"cls">> \o f.params \o f.locals

\* the values of AOC_SOLUTION_DEPENDENCY_PATHS the model starts from
DependencyChoices ==
    { <<>>,
      <<List(<<Str(LibDir)>>), Str(LibDirSlash)>>,
      <<Str(LibDir), List(<<List(<<Str(GoneDir)>>)>>)>> }

\* values a solution returns
IntValue(n) == [type |-> "int", int |-> n, str |-> <<>>]
StrValue(s) == [type |-> "str", int |-> 0, str |-> s]
NoValue == [type |-> "none", int |-> 0, str |-> <<>>]
Results == {IntValue(42), StrValue(<<"4", "2">>)}

\* repr(value)
Repr(v) ==
    IF v.type = "int" THEN IntToStr(v.int)
    ELSE IF v.type = "str" THEN <<"'">> \o v.str \o <<"'">>
    ELSE <<"N", "o", "n", "e">>

\* ------------------------------------------------------------------ dicts
\* a dict is the set of its <<key, value>> items
EmptyDict == {}
Keys(d) == {item[1] : item \in d}
\* a | b, and a |= b
Merge(a, b) == {item \in a : item[1] \notin Keys(b)} \cup b

\* the kwargs the caller gives: given = FALSE is a call without kwargs
KwargsChoices ==
    { [given |-> FALSE, dict |-> EmptyDict],
      [given |-> TRUE, dict |-> {<<"v", "1">>}],
      [given |-> TRUE, dict |-> {<<LOG_ARG_NAME, "user">>}] }
ArgsChoices == {<<>>, <<5>>}


\* ----------------------------------------------------------------- Logger
\* Logger.fmt (logger.py:10-13): one printed line (the timestamp is left out)
fmt(prefix, error_type, msg, arg) ==
    [prefix |-> prefix, error_type |-> error_type, msg |-> msg, arg |-> arg]

\* Logger.info (logger.py:15-16): the output after the call
LoggerInfo(out, msg, arg) == Append(out, fmt("INFO", "", msg, arg))

\* Logger.error with the raise before the print
LoggerErrorUnlogged(out, error_type, msg, arg) ==
    [stdout |-> out, raised |-> error_type]

\* Logger.error without the raise
LoggerErrorReturns(out, error_type, msg, arg) ==
    [stdout |-> Append(out, fmt("ERROR", error_type, msg, arg)), raised |-> ""]

\* Logger.error (logger.py:18-20): prints, then raises error_type
LoggerError(out, error_type, msg, arg) ==
    [stdout |-> Append(out, fmt("ERROR", error_type, msg, arg)),
     raised |-> error_type]

\* ------------------------------------------------------- add_import_paths
InSeq(x, seq) == \E i \in 1..Len(seq) : seq[i] = x
Count(x, seq) == Cardinality({i \in 1..Len(seq) : seq[i] = x})

\* runner.py:74-75 without the membership test
AppendAlways(path, sp) == Append(sp, path)

\* runner.py:74-75
AppendIfAbsent(path, sp) == IF ~InSeq(path, sp) THEN Append(sp, path) ELSE sp

\* runner.py:64-75: one str or Path argument
AddOnePath(path_s, st) ==
    LET path == path_s.text
        logged == IF Exists(path)
                  THEN [stdout |-> LoggerInfo(st.stdout, "Added to import paths",
                                              path_fmt(path)),
                        raised |-> ""]
                  ELSE LoggerError(st.stdout, "FileNotFoundError",
                                   "The dependency path doesnt exist", path_fmt(path))
    IN IF logged.raised # ""
       THEN [sys_path |-> st.sys_path, stdout |-> logged.stdout,
             raised |-> logged.raised, added |-> st.added]
       ELSE [sys_path |-> AppendIfAbsent(path, st.sys_path),
             stdout |-> logged.stdout, raised |-> "",
             added |-> st.added \cup {path}]

RECURSIVE add_import_paths(_, _)
\* runner.py:61-78: st is sys.path, the output, the exception raised so far
\* and the path strings accepted
add_import_paths(paths, st) ==
    IF paths = <<>> \/ st.raised # "" THEN st
    ELSE LET path_s == Head(paths)
             after == IF path_s.kind \in {"str", "Path"}
                      THEN AddOnePath(path_s, st)
                      ELSE add_import_paths(path_s.items, st)
         IN add_import_paths(Tail(paths), after)

\* -------------------------------------------------------------------- run
NoFrame ==
    [year |-> 0, problem_num |-> 0, part |-> 0, inputname |-> <<>>,
     args |-> <<>>, kwargs_ref |-> "default", caller_dict |-> EmptyDict,
     problem_directory |-> <<>>, part_function |-> NoFunction,
     problem_file |-> 0, start_time |-> 0, solution_result |-> NoValue,
     delta_time |-> 0]

NoObs ==
    [entry_cwd |-> <<>>, entry_clipboard |-> <<>>, entry_sys_path |-> <<>>,
     supplied |-> EmptyDict, imported |-> FALSE, opened |-> FALSE,
     invocations |-> <<>>, copied |-> FALSE, call_begin |-> 0, call_end |-> 0]

\* the dict object the local name kwargs is bound to
Kwargs == IF frame.kwargs_ref = "default" THEN defaults ELSE frame.caller_dict

Idle == pc \in {"idle", "returned", "raised"}

\* an exception leaves run
Raise(e) == pc' = "raised" /\ exc' = e

\* runner.py:94-104: run is called
RunEnter(year, problem_num, part, inputname, args, kw) ==
    /\ Idle
    /\ calls < MaxCalls
    /\ calls' = calls + 1
    /\ pc' = "check_directory"
    /\ frame' = [NoFrame EXCEPT
                    !.year = year, !.problem_num = problem_num, !.part = part,
                    !.inputname = inputname, !.args = args,
                    !.kwargs_ref = IF kw.given THEN "caller" ELSE "default",
                    !.caller_dict = kw.dict,
                    !.problem_directory = ProblemDirectory(year, problem_num)]
    /\ obs' = [NoObs EXCEPT !.entry_cwd = cwd, !.entry_clipboard = clipboard,
                            !.entry_sys_path = sys_path, !.supplied = kw.dict]
    /\ stdout' = <<>>
    /\ now' = 0
    /\ exc' = ""
    /\ UNCHANGED <<defaults, sys_path, sys_modules, cwd, clipboard, files,
                   SOLUTION_DEPENDENCIES, added>>

\* runner.py:105-111
CheckDirectory ==
    /\ pc = "check_directory"
    /\ LET r == IF Exists(frame.problem_directory)
                THEN [stdout |-> LoggerInfo(stdout, "Found",
                                            path_fmt(frame.problem_directory)),
                      raised |-> ""]
                ELSE LoggerError(stdout, "FileNotFoundError", "is not found",
                                 path_fmt(frame.problem_directory))
       IN /\ stdout' = r.stdout
          /\ IF r.raised # "" THEN Raise(r.raised)
                              ELSE pc' = "chdir" /\ exc' = exc
    /\ UNCHANGED <<frame, defaults, sys_path, sys_modules, cwd, clipboard,
                   files, now, calls, SOLUTION_DEPENDENCIES, added, obs>>

\* os.chdir left out
chdirSkipped(current, directory) == current

\* os.chdir (runner.py:113)
chdir(current, directory) == directory

\* runner.py:113-114
ChangeDirectory ==
    /\ pc = "chdir"
    /\ cwd' = chdir(cwd, PathText(frame.problem_directory))
    /\ stdout' = LoggerInfo(stdout, "Set CWD to", path_fmt(frame.problem_directory))
    /\ pc' = "add_import_paths"
    /\ UNCHANGED <<frame, defaults, sys_path, sys_modules, clipboard, files,
                   now, exc, calls, SOLUTION_DEPENDENCIES, added, obs>>

\* runner.py:116
AddDependencies ==
    /\ pc = "add_import_paths"
    /\ LET r == add_import_paths(
                    <<List(SOLUTION_DEPENDENCIES), Path(frame.problem_directory)>>,
                    [sys_path |-> sys_path, stdout |-> stdout, raised |-> "",
                     added |-> added])
       IN /\ sys_path' = r.sys_path
          /\ stdout' = r.stdout
          /\ added' = r.added
          /\ IF r.raised # "" THEN Raise(r.raised)
                              ELSE pc' = "import" /\ exc' = exc
    /\ UNCHANGED <<frame, defaults, sys_modules, cwd, clipboard, files, now,
                   calls, SOLUTION_DEPENDENCIES, obs>>

SolutionFile == <<"s", ".", "p", "y">>

\* import_by_path (runner.py:81-91): sys.modules[name] after the call
import_by_path(path, modules) == path

\* runner.py:118-124
ImportSolution ==
    /\ pc = "import"
    /\ sys_modules' = import_by_path(Join(frame.problem_directory, SolutionFile),
                                     sys_modules)
    /\ obs' = [obs EXCEPT !.imported = TRUE]
    /\ LET f == SolutionClass(frame.problem_directory, frame.part) IN
       IF f.defined
       THEN /\ frame' = [frame EXCEPT !.part_function = f]
            /\ pc' = "inject"
            /\ exc' = exc
       ELSE /\ Raise("AttributeError")
            /\ frame' = frame
    /\ UNCHANGED <<defaults, sys_path, cwd, clipboard, stdout, files, now,
                   calls, SOLUTION_DEPENDENCIES, added>>

\* runner.py:57-58
name_in_function(function, arg_name) == InSeq(arg_name, co_varnames(function))

\* the dict added at runner.py:128
LoggerDict == {<<LOG_ARG_NAME, "LOGGER">>}

\* runner.py:125-128: kwargs |= ... updates the dict object in place
InjectLogger ==
    /\ pc = "inject"
    /\ IF name_in_function(frame.part_function, LOG_ARG_NAME)
       THEN IF frame.kwargs_ref = "default"
            THEN /\ defaults' = Merge(defaults, LoggerDict)
                 /\ frame' = frame
            ELSE /\ frame' = [frame EXCEPT
                                 !.caller_dict = Merge(frame.caller_dict, LoggerDict)]
                 /\ defaults' = defaults
       ELSE UNCHANGED <<defaults, frame>>
    /\ pc' = "open"
    /\ UNCHANGED <<sys_path, sys_modules, cwd, clipboard, stdout, files, now,
                   exc, calls, SOLUTION_DEPENDENCIES, added, obs>>

\* runner.py:131: open() takes d ticks
OpenInput(d) ==
    /\ pc = "open"
    /\ IF Exists(Join(frame.problem_directory, frame.inputname))
       THEN /\ files' = Append(files, "open")
            /\ frame' = [frame EXCEPT !.problem_file = Len(files) + 1]
            /\ obs' = [obs EXCEPT !.opened = TRUE]
            /\ now' = now + d
            /\ pc' = "start_timer"
            /\ exc' = exc
       ELSE /\ Raise("FileNotFoundError")
            /\ UNCHANGED <<files, frame, obs, now>>
    /\ UNCHANGED <<defaults, sys_path, sys_modules, cwd, clipboard, stdout,
                   calls, SOLUTION_DEPENDENCIES, added>>

\* runner.py:132
StartTimer ==
    /\ pc = "start_timer"
    /\ frame' = [frame EXCEPT !.start_time = now]
    /\ pc' = "log_running"
    /\ UNCHANGED <<defaults, sys_path, sys_modules, cwd, clipboard, stdout,
                   files, now, exc, calls, SOLUTION_DEPENDENCIES, added, obs>>

\* runner.py:133: printing takes d ticks
LogRunning(d) ==
    /\ pc = "log_running"
    /\ stdout' = LoggerInfo(stdout, "Running",
                            path_fmt(Join(frame.problem_directory, SolutionFile)))
    /\ now' = now + d
    /\ pc' = "invoke"
    /\ UNCHANGED <<frame, defaults, sys_path, sys_modules, cwd, clipboard,
                   files, exc, calls, SOLUTION_DEPENDENCIES, added, obs>>

\* the file handle passed last instead of first
PositionalFileLast(file, args) == args \o <<file>>

\* the positional arguments of the call at runner.py:134
Positional(file, args) == <<file>> \o args

\* whether Python can bind the call's arguments to the function's parameters
Binds(f, positional, kw) ==
    /\ Len(positional) <= Len(f.params)
    /\ \A k \in Keys(kw) :
          \E i \in (Len(positional) + 1)..Len(f.params) : f.params[i] = k
    /\ \A i \in 1..f.required : i <= Len(positional) \/ f.params[i] \in Keys(kw)

\* runner.py:134: the call is made
Invoke ==
    /\ pc = "invoke"
    /\ LET positional == Positional(frame.problem_file, frame.args) IN
       /\ obs' = [obs EXCEPT
                     !.invocations = Append(@,
                         [positional |-> positional, kwargs |-> Kwargs,
                          file_state |-> files[frame.problem_file]]),
                     !.call_begin = now]
       /\ IF Binds(frame.part_function, positional, Kwargs)
          THEN pc' = "in_callable" /\ exc' = exc
          ELSE Raise("TypeError")
    /\ UNCHANGED <<frame, defaults, sys_path, sys_modules, cwd, clipboard,
                   stdout, files, now, calls, SOLUTION_DEPENDENCIES, added>>

\* runner.py:134: the solution runs for d ticks and returns
CallableReturns(result, d) ==
    /\ pc = "in_callable"
    /\ now' = now + d
    /\ frame' = [frame EXCEPT !.solution_result = result]
    /\ obs' = [obs EXCEPT !.call_end = now + d]
    /\ pc' = "stop_timer"
    /\ UNCHANGED <<defaults, sys_path, sys_modules, cwd, clipboard, stdout,
                   files, exc, calls, SOLUTION_DEPENDENCIES, added>>

\* runner.py:134: the solution raises; nothing after the call runs
CallableRaises ==
    /\ pc = "in_callable"
    /\ Raise("SolutionError")
    /\ UNCHANGED <<frame, defaults, sys_path, sys_modules, cwd, clipboard,
                   stdout, files, now, calls, SOLUTION_DEPENDENCIES, added, obs>>

\* runner.py:135-137
StopTimer ==
    /\ pc = "stop_timer"
    /\ LET delta_time == now - frame.start_time IN
       /\ frame' = [frame EXCEPT !.delta_time = delta_time]
       /\ stdout' = LoggerInfo(
                        LoggerInfo(stdout, "Finished in ms", IntToStr(delta_time * 1000)),
                        "result", Repr(frame.solution_result))
    /\ pc' = "copy"
    /\ UNCHANGED <<defaults, sys_path, sys_modules, cwd, clipboard, files, now,
                   exc, calls, SOLUTION_DEPENDENCIES, added, obs>>

\* str(value)
StrOf(v) ==
    IF v.type = "int" THEN IntToStr(v.int)
    ELSE IF v.type = "str" THEN v.str
    ELSE <<"N", "o", "n", "e">>

\* str() in place of repr()
ClipboardTextStr(result) == StrOf(result)

\* the text given to pyperclip.copy (runner.py:139)
ClipboardText(result) == Repr(result)

\* runner.py:139
CopyResult ==
    /\ pc = "copy"
    /\ clipboard' = ClipboardText(frame.solution_result)
    /\ obs' = [obs EXCEPT !.copied = TRUE]
    /\ pc' = "close"
    /\ UNCHANGED <<frame, defaults, sys_path, sys_modules, cwd, stdout, files,
                   now, exc, calls, SOLUTION_DEPENDENCIES, added>>

\* the close left out
closeSkipped(fs, handle) == fs

\* problem_file.close() (runner.py:141)
close(fs, handle) == [fs EXCEPT ![handle] = "closed"]

\* runner.py:141, and run returns
CloseFile ==
    /\ pc = "close"
    /\ files' = close(files, frame.problem_file)
    /\ pc' = "returned"
    /\ UNCHANGED <<frame, defaults, sys_path, sys_modules, cwd, clipboard,
                   stdout, now, exc, calls, SOLUTION_DEPENDENCIES, added, obs>>

\* the arguments of a direct call of add_import_paths
ImportPathChoices ==
    { <<Str(LibDir), Str(LibDir)>>,
      <<List(<<Str(LibDir), List(<<Path(LibDirSlash)>>)>>), Str(LibDirSlash)>>,
      <<Str(StartDir), Path(ProblemDirectory(2022, 1))>>,
      <<Str(LibDirSlash), Str(GoneDir), Str(LibDir)>> }

\* runner.py:61-78: add_import_paths is called on its own
AddImportPathsCall(paths) ==
    /\ Idle
    /\ calls < MaxCalls
    /\ calls' = calls + 1
    /\ LET r == add_import_paths(paths,
                    [sys_path |-> sys_path, stdout |-> <<>>, raised |-> "",
                     added |-> added])
       IN /\ sys_path' = r.sys_path
          /\ stdout' = r.stdout
          /\ added' = r.added
          /\ exc' = r.raised
    /\ pc' = "idle"
    /\ frame' = NoFrame
    /\ obs' = NoObs
    /\ now' = 0
    /\ UNCHANGED <<defaults, sys_modules, cwd, clipboard, files,
                   SOLUTION_DEPENDENCIES>>

InitialSysPath == <<StartDir>>

Init ==
    /\ pc = "idle"
    /\ frame = NoFrame
    /\ defaults = EmptyDict
    /\ sys_path = InitialSysPath
    /\ sys_modules = <<>>
    /\ cwd = StartDir
    /\ clipboard = <<>>
    /\ stdout = <<>>
    /\ files = <<>>
    /\ now = 0
    /\ exc = ""
    /\ calls = 0
    /\ SOLUTION_DEPENDENCIES \in DependencyChoices
    /\ added = {}
    /\ obs = NoObs

Next ==
    \/ \E year \in Years, problem_num \in Problems, part \in Parts,
          inputname \in InputNames, args \in ArgsChoices, kw \in KwargsChoices :
          RunEnter(year, problem_num, part, inputname, args, kw)
    \/ CheckDirectory
    \/ ChangeDirectory
    \/ AddDependencies
    \/ ImportSolution
    \/ InjectLogger
    \/ \E d \in 0..MaxTick : OpenInput(d)
    \/ StartTimer
    \/ \E d \in 0..MaxTick : LogRunning(d)
    \/ Invoke
    \/ \E result \in Results, d \in 0..MaxTick : CallableReturns(result, d)
    \/ CallableRaises
    \/ StopTimer
    \/ CopyResult
    \/ CloseFile
    \/ \E paths \in ImportPathChoices : AddImportPathsCall(paths)

Spec == Init /\ [][Next]_vars

\* ------------------------------------------------------------- properties
InRun == pc # "idle"
Invoked == Len(obs.invocations) > 0
Invocation == obs.invocations[1]
AfterCall == pc \in {"stop_timer", "copy", "close", "returned"}
FileState == files[frame.problem_file]
ErrorLine(line) == line.prefix = "ERROR" /\ line.error_type = "FileNotFoundError"

RECURSIVE Missing(_)
\* some path of the list, at any depth, does not exist
Missing(items) ==
    \E i \in 1..Len(items) :
        IF items[i].kind = "list" THEN Missing(items[i].items)
        ELSE ~Exists(items[i].text)

\* C1: whenever run calls the function for a caller that gave no 'logger'
\* entry, the call has the keyword logger = LOGGER if 'logger' is one of the
\* function's parameters, and has no keyword 'logger' otherwise.
C1_LoggerIffParameter ==
    (Invoked /\ LOG_ARG_NAME \notin Keys(obs.supplied)) =>
        IF InSeq(LOG_ARG_NAME, frame.part_function.params)
        THEN <<LOG_ARG_NAME, "LOGGER">> \in Invocation.kwargs
        ELSE LOG_ARG_NAME \notin Keys(Invocation.kwargs)

\* C2: a run whose problem directory does not exist goes no further than the
\* existence check, and leaves run with FileNotFoundError after exactly one
\* line was printed, the error line.
C2_MissingDirectoryLogsThenRaises ==
    (InRun /\ ~Exists(frame.problem_directory)) =>
        /\ pc \in {"check_directory", "raised"}
        /\ pc = "raised" =>
              /\ exc = "FileNotFoundError"
              /\ Len(stdout) = 1
              /\ ErrorLine(stdout[1])

C2_Witness ==
    /\ pc = "raised"
    /\ frame.year = 2024
    /\ ~Exists(frame.problem_directory)
    /\ Len(stdout) = 1

\* C3: every path string add_import_paths accepted that was not in sys.path
\* at the start is in sys.path exactly once.
C3_AddedExactlyOnce ==
    \A path \in added :
        ~InSeq(path, InitialSysPath) => Count(path, sys_path) = 1

\* a run has added its problem directory, which an earlier call had added
C3_Witness ==
    /\ pc = "returned"
    /\ InSeq(frame.problem_directory, obs.entry_sys_path)
    /\ ~InSeq(frame.problem_directory, InitialSysPath)
    /\ \E i \in 1..Len(SOLUTION_DEPENDENCIES) :
          SOLUTION_DEPENDENCIES[i].kind = "list"
    /\ Count(LibDirSlash, sys_path) = 1

\* C4: run calls the function at most once; while the function runs and after
\* it returned it was called exactly once, its first positional argument is
\* the file object run opened, and that file is open at the call and for as
\* long as the function runs.
C4_CalledOnceWithOpenFile ==
    /\ Len(obs.invocations) <= 1
    /\ (pc = "in_callable" \/ AfterCall) => Invoked
    /\ Invoked =>
          /\ frame.problem_file \in 1..Len(files)
          /\ Invocation.positional[1] = frame.problem_file
          /\ Invocation.positional = <<frame.problem_file>> \o frame.args
          /\ Invocation.file_state = "open"
    /\ pc = "in_callable" => FileState = "open"

C4_Witness ==
    /\ pc = "in_callable"
    /\ frame.args # <<>>
    /\ FileState = "open"

\* C5: when run has returned the clipboard holds repr of the value the
\* function returned; when an exception has left run the clipboard is what
\* it was when run was called.
C5_ClipboardIsReprOfResult ==
    /\ pc = "returned" =>
          /\ obs.copied
          /\ clipboard = Repr(frame.solution_result)
    /\ pc = "raised" =>
          /\ ~obs.copied
          /\ clipboard = obs.entry_clipboard

C5_Witness ==
    /\ pc = "returned"
    /\ frame.solution_result = StrValue(<<"4", "2">>)
    /\ clipboard = <<"'", "4", "2", "'">>
    /\ obs.entry_clipboard = <<"4", "2">>

\* C6: the elapsed time run reports is not negative and is the time the
\* function ran, from the call to its return.
C6_ElapsedIsCallDuration ==
    AfterCall /\ pc # "stop_timer" =>
        /\ frame.delta_time >= 0
        /\ frame.delta_time = obs.call_end - obs.call_begin

\* C7 as stated: the working directory is the problem directory while the
\* solution is imported and called, and is the directory of before the call
\* again once run has returned.
C7_CwdRestored ==
    /\ pc \in {"import", "inject", "open", "start_timer", "log_running",
               "invoke", "in_callable"} =>
          cwd = PathText(frame.problem_directory)
    /\ pc = "returned" => cwd = obs.entry_cwd

\* C7 amended: the working directory is the problem directory while the
\* solution is imported and called, and it still is once run has returned.
C7_CwdStaysProblemDirectory ==
    pc \in {"add_import_paths", "import", "inject", "open", "start_timer",
            "log_running", "invoke", "in_callable", "stop_timer", "copy",
            "close", "returned"} =>
        cwd = PathText(frame.problem_directory)

C7_Witness ==
    /\ pc = "returned"
    /\ cwd = PathText(frame.problem_directory)
    /\ cwd # obs.entry_cwd

\* C8: a call of run whose function has no name 'logger' at all (so that this
\* call injects nothing) forwards exactly the keyword arguments its caller
\* gave, none when kwargs was omitted, whatever earlier calls did.
C8_NoStateBetweenCalls ==
    (Invoked /\ ~name_in_function(frame.part_function, LOG_ARG_NAME)) =>
        Invocation.kwargs = obs.supplied

\* C9: when run has returned the file it opened is closed; when the function
\* raised, the exception has left run and the file is still open.
C9_ClosedOnlyOnSuccess ==
    /\ pc = "returned" => FileState = "closed"
    /\ (pc = "raised" /\ exc \in {"SolutionError", "TypeError"}) =>
          /\ obs.opened
          /\ FileState = "open"

C9_Witness ==
    /\ pc = "raised"
    /\ exc = "SolutionError"
    /\ FileState = "open"

\* C10: a run whose problem directory or one of whose dependency paths, at
\* any depth, does not exist never gets past add_import_paths: it leaves run
\* with FileNotFoundError after an error line, without having imported the
\* solution, opened the input, called the function or written the clipboard;
\* and no path that does not exist is ever in sys.path.
C10_FailFast ==
    /\ (InRun /\ (~Exists(frame.problem_directory) \/ Missing(SOLUTION_DEPENDENCIES))) =>
          /\ pc \in {"check_directory", "chdir", "add_import_paths", "raised"}
          /\ ~obs.imported /\ ~obs.opened /\ ~Invoked /\ ~obs.copied
          /\ clipboard = obs.entry_clipboard
          /\ pc = "raised" =>
                /\ exc = "FileNotFoundError"
                /\ ErrorLine(stdout[Len(stdout)])
    /\ \A i \in 1..Len(sys_path) : Exists(sys_path[i])

\* a nested dependency path is missing, after an existing one was added
C10_Witness ==
    /\ pc = "raised"
    /\ Exists(frame.problem_directory)
    /\ Missing(SOLUTION_DEPENDENCIES)
    /\ InSeq(LibDir, sys_path)
    /\ ~InSeq(LibDir, obs.entry_sys_path)
    /\ stdout[Len(stdout)].arg = GoneDir
====
